---- MODULE Spec2Model ----
(***************************************************************************)
(* Model of Source/ModdingEx/Private/ModBuilder.cpp: UModBuilder::BuildMod *)
(* (resolution of the highest pakchunk, staging copies, cleanup),          *)
(* UModBuilder::GetOutputFolder, UModBuilder::ZipModInternal and           *)
(* UModBuilder::ZipMod.                                                    *)
(*                                                                         *)
(* An FString is a sequence of one-character strings, so that the regular  *)
(* expression, Atoi and GetBaseFilename are computed on the characters.    *)
(***************************************************************************)
EXTENDS Integers, Sequences, FiniteSets, TLC

(***************************** strings *************************************)

Digits == <<"0", "1", "2", "3", "4", "5", "6", "7", "8", "9">>

IsDigit(c) == \E i \in 1..10 : Digits[i] = c

DigitVal(c) == (CHOOSE i \in 1..10 : Digits[i] = c) - 1

S_pakchunk == <<"p", "a", "k", "c", "h", "u", "n", "k">>
S_dotpak   == <<".", "p", "a", "k">>
S_dotutoc  == <<".", "u", "t", "o", "c">>
S_dotucas  == <<".", "u", "c", "a", "s">>
S_Win64    == <<"-", "W", "i", "n", "6", "4">>
S_Linux    == <<"-", "L", "i", "n", "u", "x">>

\* The mod name BuildMod and ZipModInternal are called with.
ModName == <<"M", "y", "M", "o", "d">>

StartsWith(s, p) == Len(s) >= Len(p) /\ SubSeq(s, 1, Len(p)) = p

EndsWith(s, p) == Len(s) >= Len(p) /\ SubSeq(s, Len(s) - Len(p) + 1, Len(s)) = p

\* Number of leading digits of s from position i on: the greedy \d+ .
RECURSIVE DigitRun(_, _)
DigitRun(s, i) ==
    IF i <= Len(s) /\ IsDigit(s[i]) THEN 1 + DigitRun(s, i + 1) ELSE 0

\* Number of characters of s from position i on that are neither '-' nor '.':
\* the greedy [^-.]+ .
RECURSIVE TagRun(_, _)
TagRun(s, i) ==
    IF i <= Len(s) /\ s[i] # "-" /\ s[i] # "." THEN 1 + TagRun(s, i + 1) ELSE 0

NoMatch == [matched |-> FALSE, group1 |-> <<>>, group2 |-> <<>>]

\* A matcher that takes any .pak file for chunk 0: the first-.pak-found policy.
PakChunkMatch_AnyPak(PakFilename) ==
    [matched |-> Len(PakFilename) >= 4
                   /\ SubSeq(PakFilename, Len(PakFilename) - 3, Len(PakFilename))
                        = <<".", "p", "a", "k">>,
     group1 |-> <<"0">>, group2 |-> <<>>]

\* FRegexMatcher(PakChunkPattern, PakFilename).FindNext() with the pattern
\* ^pakchunk(\d+)(-([^-.]+))?\.pak$ : group1 the digits, group2 the optional
\* platform part with its leading hyphen.  Both runs are followed by a
\* character outside their class, so the greedy match is the only one.
PakChunkMatch(PakFilename) ==
    IF ~StartsWith(PakFilename, S_pakchunk) THEN NoMatch
    ELSE
      LET p0   == Len(S_pakchunk) + 1
          nd   == DigitRun(PakFilename, p0)
          p1   == p0 + nd
          rest == SubSeq(PakFilename, p1, Len(PakFilename))
          nt   == TagRun(PakFilename, p1 + 1)
      IN  IF nd = 0 THEN NoMatch
          ELSE IF rest = S_dotpak
            THEN [matched |-> TRUE,
                  group1  |-> SubSeq(PakFilename, p0, p1 - 1),
                  group2  |-> <<>>]
          ELSE IF /\ Len(rest) >= 1
                  /\ rest[1] = "-"
                  /\ nt >= 1
                  /\ SubSeq(PakFilename, p1 + 1 + nt, Len(PakFilename)) = S_dotpak
            THEN [matched |-> TRUE,
                  group1  |-> SubSeq(PakFilename, p0, p1 - 1),
                  group2  |-> SubSeq(PakFilename, p1, p1 + nt)]
          ELSE NoMatch

\* Largest int32: FCString::Atoi returns an int32.
Int32Max == 2147483647

\* FCString::Atoi on a string of digits (the Win64 C runtime's _wtoi): the
\* decimal value, INT_MAX when the value does not fit an int32.
RECURSIVE AtoiFrom(_, _, _)
AtoiFrom(s, i, acc) ==
    IF i > Len(s) THEN acc
    ELSE LET d == DigitVal(s[i])
         IN  IF acc > (Int32Max - d) \div 10 THEN Int32Max
             ELSE AtoiFrom(s, i + 1, acc * 10 + d)

Atoi(s) == AtoiFrom(s, 1, 0)

\* Position of the last '.' of s, 0 when there is none.
RECURSIVE LastDot(_, _)
LastDot(s, i) ==
    IF i = 0 THEN 0 ELSE IF s[i] = "." THEN i ELSE LastDot(s, i - 1)

\* FPaths::GetBaseFilename of a bare file name: the name without its last
\* extension.
GetBaseFilename(name) ==
    LET d == LastDot(name, Len(name))
    IN  IF d = 0 THEN name ELSE SubSeq(name, 1, d - 1)

\* Dir / Name: a path is a directory and a bare file name.
PathOf(dir, name) == [dir |-> dir, name |-> name]

\* FPaths::GetCleanFilename: the path without its directory.
GetCleanFilename(path) == path.name

(************************ resolution of the pakchunk ***********************)

\* The loop's variables before the first iteration (lines 213-215).
ScanInit ==
    [HighestChunkNum |-> -1, HighestChunkPakFilename |-> <<>>,
     BasePlatformString |-> <<>>]

\* A loop that keeps the first pakchunk it meets, whatever its number.
IsHigher_FirstFound(CurrentChunkNum, HighestChunkNum) == HighestChunkNum = -1

\* A loop that keeps the last of the pakchunks with the highest number.
IsHigher_OrEqual(CurrentChunkNum, HighestChunkNum) == CurrentChunkNum >= HighestChunkNum

\* "CurrentChunkNum > HighestChunkNum" (line 236).
IsHigher(CurrentChunkNum, HighestChunkNum) == CurrentChunkNum > HighestChunkNum

\* One iteration of the loop over FoundFiles (lines 223-248).
ScanOne(st, PakFilename) ==
    LET Matcher == PakChunkMatch(PakFilename)
    IN  IF Matcher.matched
          THEN LET CurrentChunkNum == Atoi(Matcher.group1)
               IN  IF IsHigher(CurrentChunkNum, st.HighestChunkNum)
                     THEN [HighestChunkNum |-> CurrentChunkNum,
                           HighestChunkPakFilename |-> PakFilename,
                           BasePlatformString |-> Matcher.group2]
                     ELSE st
          ELSE st

\* The loop over the first n files of a listing.
RECURSIVE ScanPrefix(_, _)
ScanPrefix(listing, n) ==
    IF n = 0 THEN ScanInit ELSE ScanOne(ScanPrefix(listing, n - 1), listing[n])

\* The whole loop.
FindHighest(listing) == ScanPrefix(listing, Len(listing))

\* "HighestChunkNum != -1 && !HighestChunkPakFilename.IsEmpty()" (line 253).
HasCandidate(st) == st.HighestChunkNum # -1 /\ st.HighestChunkPakFilename # <<>>

(****************************** inputs **************************************)

\* File names the packaging tool may leave in the staged Paks directory.
N3       == S_pakchunk \o <<"3">> \o S_Win64 \o S_dotpak
N9       == S_pakchunk \o <<"9">> \o S_Win64 \o S_dotpak
N17      == S_pakchunk \o <<"1", "7">> \o S_Win64 \o S_dotpak
N17Linux == S_pakchunk \o <<"1", "7">> \o S_Linux \o S_dotpak
N017     == S_pakchunk \o <<"0", "1", "7">> \o S_dotpak
N0       == S_pakchunk \o <<"0">> \o S_dotpak
NBig     == S_pakchunk \o <<"4", "2", "9", "4", "9", "6", "7", "2", "9", "9">> \o S_dotpak
NDefault == <<"M", "y", "G", "a", "m", "e">> \o S_dotpak
NNoIndex == S_pakchunk \o S_dotpak
NTwoTags == S_pakchunk \o <<"5", "-", "a", "-", "b">> \o S_dotpak

\* The names a listing of the resolution loop is drawn from.
ListingPool == {N3, N9, N17, N17Linux, N017, N0, NBig, NDefault, NNoIndex, NTwoTags}

\* The .pak names a build invocation's staged directory is drawn from.
StagedPool == {N3, N17, NDefault}

\* Longest listing handed to the resolution loop on its own.
MaxListing == 3

\* Most .pak files in the staged directory of a build invocation.
MaxStaged == 2

\* The orders in which a directory listing may return the files of S.
Orderings(S) ==
    {f \in [1..Cardinality(S) -> S] : \A i, j \in 1..Cardinality(S) : f[i] = f[j] => i = j}

\* The listings of at most n distinct names of pool.
Listings(pool, n) ==
    UNION {Orderings(S) : S \in {T \in SUBSET pool : Cardinality(T) <= n}}

\* The .utoc and .ucas names beside a set of .pak names.
CompanionsOf(paks) ==
    {GetBaseFilename(p) \o e : p \in paks, e \in {S_dotutoc, S_dotucas}}

\* What the staged Paks directory may hold after the packaging tool ran.
StagedContents ==
    UNION {{paks \cup comps : comps \in SUBSET CompanionsOf(paks)} :
              paks \in {T \in SUBSET StagedPool : Cardinality(T) <= MaxStaged}}

\* IFileManager::FindFiles(FoundFiles, Dir, "*.pak"): the files of the
\* directory whose name ends in .pak .
PakFilesOf(files) == {f \in files : EndsWith(f, S_dotpak)}

(******************************* state **************************************)

VARIABLES
    pc,                      \* position in BuildMod / ZipMod / ZipModInternal
    topOp,                   \* the top-level operation running: BuildMod or ZipMod
    bAlwaysBuildBeforeZipping, \* the setting the running ZipMod read (line 576)
    liveCoding,              \* [LiveCoding] bEnabled of the editor's ini
    notifications,           \* dialogs and toasts shown by the running operation
    dest,                    \* the output folder: file name -> contents
    \* BuildMod
    bUseIoStore,
    destBefore,              \* the output folder when BuildMod was entered
    liveCodingBefore,        \* [LiveCoding] bEnabled when BuildMod was entered
    bOutputFolder,           \* what GetOutputFolder returned to BuildMod (line 96)
    TempStagingDirExists,    \* the temporary staging directory is on disk
    stagingCreated,          \* BuildMod created it (line 126)
    deleteAttempts,          \* DeleteDirectory calls on it by this invocation
    deleteFailed,            \* one of them returned false
    uatRuns,                 \* ExecProcess calls by this invocation
    execSuccess,             \* bSuccess: what the last ExecProcess returned (line 37)
    execReturnCode,          \* ReturnCode: the exit code it reported (lines 30, 37)
    stagedFiles,             \* the files of StagedPaksDir
    resolutionRan,           \* the resolution loop has run (line 248 is passed)
    FoundFiles,              \* the listing the resolution loop is stepped through
    scanned,                 \* files of FoundFiles that loop has been through
    HighestChunkNum,
    HighestChunkPakFilename,
    BasePlatformString,
    bPakCopied,
    bUtocCopied,
    bUcasCopied,
    copyAttempts,            \* the destination names a Copy was called for
    bEssentialFilesCopied,
    buildResult,             \* what BuildMod returned, once pc is "bm_ret"
    \* ZipModInternal
    FilesToArchivePaths,
    zipIndex,                \* files of FilesToArchivePaths the loop has been through
    zipHandle,               \* the file ZipFileHandle opened: "none", "open", "closed"
    writerCloses,            \* times the archive writer was finalized
    handleCloses,            \* times the IFileHandle of the zip file was deleted
    zipEntries,              \* AddFile calls made on ZipWriter
    bAllFilesAdded,
    readFailures,            \* the paths LoadFileToArray failed on
    zipResult,               \* what ZipModInternal returned, once pc is "zi_ret"
    zipModResult             \* what ZipMod returned, once pc is "zm_ret"

callVars    == <<topOp, bAlwaysBuildBeforeZipping>>
sessionVars == <<pc, callVars, liveCoding, notifications>>
diskVars    == <<dest>>
uatVars     == <<uatRuns, execSuccess, execReturnCode>>
stageVars   == <<TempStagingDirExists, stagingCreated, deleteAttempts, deleteFailed,
                 uatVars, stagedFiles, resolutionRan>>
scanVars    == <<FoundFiles, scanned, HighestChunkNum, HighestChunkPakFilename,
                 BasePlatformString>>
copyVars    == <<bPakCopied, bUtocCopied, bUcasCopied, copyAttempts,
                 bEssentialFilesCopied>>
entryVars   == <<bUseIoStore, destBefore, liveCodingBefore, bOutputFolder>>
buildVars   == <<entryVars, buildResult>>
handleVars  == <<zipHandle, writerCloses, handleCloses>>
zipVars     == <<FilesToArchivePaths, zipIndex, handleVars, zipEntries,
                 bAllFilesAdded, readFailures, zipResult, zipModResult>>

vars == <<sessionVars, diskVars, stageVars, scanVars, copyVars, buildVars, zipVars>>

\* Contents of a file that was in the output folder before any build of the
\* behaviour wrote it.
OldBytes == [from |-> <<"old">>]

\* Contents of the staged file name: every staged file has bytes of its own.
StagedBytes(name) == [from |-> name]

\* The canonical names in the output folder (lines 268-270, 455-463).
DestPak  == ModName \o S_dotpak
DestUtoc_PakExtension == ModName \o S_dotpak
DestUtoc == ModName \o S_dotutoc
DestUcas == ModName \o S_dotucas

\* The output folder with file name written with contents bytes.
WriteFile(dir, name, bytes) ==
    [n \in DOMAIN dir \cup {name} |-> IF n = name THEN bytes ELSE dir[n]]

\* The output folder without file name.
RemoveFile(dir, name) == [n \in DOMAIN dir \ {name} |-> dir[n]]

\* IFileManager::FileExists on a file of a directory.
FileExists(files, name) == name \in files

(**************************** GetOutputFolder *******************************)

\* What GetOutputFolder reads: the settings and the directories on disk.
OutputFolderEnvs ==
    [customPathEmpty : BOOLEAN, customDirExists : BOOLEAN, customMakeOk : BOOLEAN,
     gameDirEmpty : BOOLEAN, gameDirExists : BOOLEAN, relFolderEmpty : BOOLEAN,
     outFolderExists : BOOLEAN, outMakeOk : BOOLEAN]

\* UModBuilder::GetOutputFolder (lines 368-433): whether an output folder
\* was determined.  RelFolder is LogicModFolder or ContentModFolder by
\* bIsLogicMod; relFolderEmpty is the emptiness of the one chosen.
GetOutputFolder(bIsLogicMod, env) ==
    IF ~env.customPathEmpty
      THEN IF env.customDirExists THEN TRUE ELSE env.customMakeOk
    ELSE IF env.gameDirEmpty THEN FALSE
    ELSE IF ~env.gameDirExists THEN FALSE
    ELSE IF env.relFolderEmpty THEN FALSE
    ELSE IF ~env.outFolderExists THEN env.outMakeOk
    ELSE TRUE

\* The directory GetOutputFolder settles on exists already.
OutputFolderOnDisk(env) ==
    IF ~env.customPathEmpty THEN env.customDirExists
    ELSE env.gameDirExists /\ env.outFolderExists

\* The environments GetOutputFolder can meet: a folder that holds files exists.
OutputFolderEnvsFor(folder) ==
    {env \in OutputFolderEnvs : DOMAIN folder # {} => OutputFolderOnDisk(env)}

(******************************** BuildMod **********************************)

\* SetLiveCoding (lines 67-77).
SetLiveCoding(coding) == liveCoding' = coding

\* The locals of BuildMod before they are assigned.
BuildLocalsReset ==
    /\ TempStagingDirExists' = FALSE
    /\ stagingCreated' = FALSE
    /\ deleteAttempts' = 0
    /\ deleteFailed' = FALSE
    /\ uatRuns' = 0
    /\ execSuccess' = FALSE
    /\ execReturnCode' = -1
    /\ stagedFiles' = {}
    /\ resolutionRan' = FALSE
    /\ FoundFiles' = <<>>
    /\ scanned' = 0
    /\ HighestChunkNum' = ScanInit.HighestChunkNum
    /\ HighestChunkPakFilename' = ScanInit.HighestChunkPakFilename
    /\ BasePlatformString' = ScanInit.BasePlatformString
    /\ bPakCopied' = FALSE
    /\ bUtocCopied' = FALSE
    /\ bUcasCopied' = FALSE
    /\ copyAttempts' = {}
    /\ bEssentialFilesCopied' = FALSE

\* The locals of ZipModInternal before they are assigned.
ZipLocalsReset ==
    /\ FilesToArchivePaths' = <<>>
    /\ zipIndex' = 0
    /\ zipHandle' = "none"
    /\ writerCloses' = 0
    /\ handleCloses' = 0
    /\ zipEntries' = <<>>
    /\ bAllFilesAdded' = TRUE
    /\ readFailures' = {}

\* BuildMod returns value: a dialog or toast has been shown on the way.
BuildReturns(value) ==
    /\ buildResult' = value
    /\ pc' = "bm_ret"

\* An exit path that leaves without deleting the staging directory.
DeleteStagingDir_Forgotten(ok) ==
    UNCHANGED <<TempStagingDirExists, deleteAttempts, deleteFailed>>

\* FileManager.DeleteDirectory(TempStagingDir, false, true): ok is its result.
DeleteStagingDir(ok) ==
    /\ TempStagingDirExists' = (TempStagingDirExists /\ ~ok)
    /\ deleteAttempts' = deleteAttempts + 1
    /\ deleteFailed' = (deleteFailed \/ ~ok)

\* FMessageDialog::Open, or a notification item added to the notification
\* manager: one more user-visible notification.
Notify == notifications' = notifications + 1

\* The operator starts BuildMod from the editor.
Call_BuildMod ==
    /\ pc = "idle"
    /\ pc' = "bm_entry"
    /\ topOp' = "BuildMod"
    /\ bAlwaysBuildBeforeZipping' = FALSE
    /\ notifications' = 0
    /\ UNCHANGED <<liveCoding, diskVars, stageVars, scanVars, copyVars, buildVars,
                   zipVars>>

\* A BuildMod that goes on without an output folder.
OutputFolderMissing_Ignored(found) == FALSE

\* "!GetOutputFolder(true, FinalDestinationDir)" (line 96).
OutputFolderMissing(found) == ~found

\* BuildMod, lines 81-105: live coding off, then the output folder.
BM_Begin ==
    /\ pc = "bm_entry"
    /\ liveCodingBefore' = liveCoding
    /\ SetLiveCoding(FALSE)
    /\ BuildLocalsReset
    /\ destBefore' = dest
    /\ \E io \in BOOLEAN : bUseIoStore' = io
    /\ \E env \in OutputFolderEnvsFor(dest) :
         /\ bOutputFolder' = GetOutputFolder(TRUE, env)
         /\ IF OutputFolderMissing(GetOutputFolder(TRUE, env))
              THEN /\ BuildReturns(FALSE)
                   /\ Notify
              ELSE /\ pc' = "bm_paths"
                   /\ buildResult' = FALSE
                   /\ UNCHANGED notifications
    /\ UNCHANGED <<callVars, diskVars, zipVars>>

\* BuildMod, lines 107-131: RunUAT.bat must exist; the staging directory, named
\* by a new GUID, is not on disk (lines 120-125 find nothing to clean) and is
\* created.
BM_Paths ==
    /\ pc = "bm_paths"
    /\ \E uatFound \in BOOLEAN, makeOk \in BOOLEAN :
         IF ~uatFound
           THEN /\ Notify
                /\ BuildReturns(FALSE)
                /\ UNCHANGED <<TempStagingDirExists, stagingCreated>>
         ELSE IF ~makeOk
           THEN /\ Notify
                /\ BuildReturns(FALSE)
                /\ UNCHANGED <<TempStagingDirExists, stagingCreated>>
         ELSE /\ TempStagingDirExists' = TRUE
              /\ stagingCreated' = TRUE
              /\ pc' = "bm_uat"
              /\ UNCHANGED <<notifications, buildResult>>
    /\ UNCHANGED <<callVars, liveCoding, diskVars, deleteAttempts, deleteFailed, uatVars,
                   stagedFiles, resolutionRan, scanVars, copyVars, entryVars, zipVars>>

\* FPlatformProcess::ExecProcess may return these codes.
ReturnCodes == {-1, 0, 1}

\* A step that is taken for a success as soon as the process was launched.
ExecProcessAndLog_IgnoresCode(bSuccess, ReturnCode) == bSuccess

\* ExecProcessAndLog (lines 28-63): the step succeeded.
ExecProcessAndLog(bSuccess, ReturnCode) == ~(~bSuccess \/ ReturnCode # 0)

\* BuildMod, lines 136-179: run the packaging tool; on failure (its dialog is
\* ExecProcessAndLog's, line 57) delete the staging directory and return.
BM_RunUAT ==
    /\ pc = "bm_uat"
    /\ uatRuns' = uatRuns + 1
    /\ \E bSuccess \in BOOLEAN, ReturnCode \in ReturnCodes, deleteOk \in BOOLEAN :
         /\ execSuccess' = bSuccess
         /\ execReturnCode' = ReturnCode
         /\ IF ExecProcessAndLog(bSuccess, ReturnCode)
              THEN /\ pc' = "bm_paksdir"
                   /\ UNCHANGED <<notifications, buildResult, TempStagingDirExists,
                                  deleteAttempts, deleteFailed>>
              ELSE /\ Notify
                   /\ DeleteStagingDir(deleteOk)
                   /\ BuildReturns(FALSE)
    /\ UNCHANGED <<callVars, liveCoding, diskVars, stagingCreated, stagedFiles,
                   resolutionRan, scanVars, copyVars, entryVars, zipVars>>

\* The places the staged Paks directory is looked for, in this order
\* (lines 185, 191, 193).
PaksDirCandidates == <<"Win64/Project/Content/Paks", "Project/Content/Paks",
                       "Windows/Project/Content/Paks">>

\* Lines 185-206: the first candidate that exists, "none" when none does.
ResolvePaksDir(existing) ==
    IF PaksDirCandidates[1] \in existing THEN PaksDirCandidates[1]
    ELSE IF PaksDirCandidates[2] \in existing THEN PaksDirCandidates[2]
    ELSE IF PaksDirCandidates[3] \in existing THEN PaksDirCandidates[3]
    ELSE "none"

\* BuildMod, lines 185-206: locate the staged Paks directory.
BM_PaksDir ==
    /\ pc = "bm_paksdir"
    /\ \E existing \in SUBSET {PaksDirCandidates[i] : i \in 1..3}, deleteOk \in BOOLEAN :
         IF ResolvePaksDir(existing) = "none"
           THEN /\ Notify
                /\ DeleteStagingDir(deleteOk)
                /\ BuildReturns(FALSE)
           ELSE /\ pc' = "bm_find"
                /\ UNCHANGED <<notifications, buildResult, TempStagingDirExists,
                               deleteAttempts, deleteFailed>>
    /\ UNCHANGED <<callVars, liveCoding, diskVars, stagingCreated, uatVars, stagedFiles,
                   resolutionRan, scanVars, copyVars, entryVars, zipVars>>

\* BuildMod, lines 213-248: list the *.pak files of the staged directory and
\* keep the one with the highest chunk number.
BM_Find ==
    /\ pc = "bm_find"
    /\ \E contents \in StagedContents :
         \E listing \in Orderings(PakFilesOf(contents)) :
           LET st == FindHighest(listing)
           IN  /\ stagedFiles' = contents
               /\ resolutionRan' = TRUE
               /\ HighestChunkNum' = st.HighestChunkNum
               /\ HighestChunkPakFilename' = st.HighestChunkPakFilename
               /\ BasePlatformString' = st.BasePlatformString
               /\ IF HasCandidate(st)
                    THEN /\ pc' = "bm_copypak"
                         /\ UNCHANGED bEssentialFilesCopied
                    ELSE \* lines 325-328
                         /\ pc' = "bm_cleanup"
                         /\ bEssentialFilesCopied' = FALSE
    /\ UNCHANGED <<callVars, liveCoding, notifications, diskVars, TempStagingDirExists,
                   stagingCreated, deleteAttempts, deleteFailed, uatVars, FoundFiles,
                   scanned,
                   bPakCopied, bUtocCopied, bUcasCopied, copyAttempts, buildVars,
                   zipVars>>

\* Lines 258-260: the names of the three staged files.
HighestChunkUtocFilename == GetBaseFilename(HighestChunkPakFilename) \o S_dotutoc
\* A .ucas name that is the first .ucas found in the staged directory.
HighestChunkUcasFilename_FirstFound ==
    IF \E f \in stagedFiles : EndsWith(f, S_dotucas)
      THEN CHOOSE f \in stagedFiles : EndsWith(f, S_dotucas)
      ELSE GetBaseFilename(HighestChunkPakFilename) \o S_dotucas

HighestChunkUcasFilename == GetBaseFilename(HighestChunkPakFilename) \o S_dotucas

\* What FileManager.Copy(Dest, Src, true, true, true) may do: copy, fail and
\* leave the destination alone, or fail after it removed the destination.
CopyOutcomes == {"COPY_OK", "COPY_Fail", "COPY_Fail_removed"}

\* A Copy that does not replace a file that is there already.
CopyInto_KeepsExisting(folder, destName, src, outcome) ==
    IF outcome = "COPY_OK" /\ destName \notin DOMAIN folder
      THEN [n \in DOMAIN folder \cup {destName} |->
              IF n = destName THEN [from |-> src] ELSE folder[n]]
    ELSE folder

\* The output folder after a Copy of staged file src onto destName.
CopyInto(folder, destName, src, outcome) ==
    IF outcome = "COPY_OK" THEN WriteFile(folder, destName, StagedBytes(src))
    ELSE IF outcome = "COPY_Fail_removed" THEN RemoveFile(folder, destName)
    ELSE folder

\* BuildMod, lines 277-287: copy the .pak .
BM_CopyPak ==
    /\ pc = "bm_copypak"
    /\ IF FileExists(stagedFiles, HighestChunkPakFilename)
         THEN \E outcome \in CopyOutcomes :
                /\ dest' = CopyInto(dest, DestPak, HighestChunkPakFilename, outcome)
                /\ bPakCopied' = (outcome = "COPY_OK")
                /\ copyAttempts' = copyAttempts \cup {DestPak}
         ELSE UNCHANGED <<dest, bPakCopied, copyAttempts>>
    /\ pc' = "bm_copyutoc"
    /\ UNCHANGED <<callVars, liveCoding, notifications, stageVars, scanVars,
                   bUtocCopied, bUcasCopied, bEssentialFilesCopied, buildVars, zipVars>>

\* A .utoc copy that is skipped when the .pak was not copied.
UtocCopyWanted_AfterPak(io) == io /\ bPakCopied

\* "bUseIoStore" (line 290): the .utoc copy is gone into.
UtocCopyWanted(io) == io

\* BuildMod, lines 289-301: copy the .utoc when IO Store is used.
BM_CopyUtoc ==
    /\ pc = "bm_copyutoc"
    /\ IF UtocCopyWanted(bUseIoStore) /\ FileExists(stagedFiles, HighestChunkUtocFilename)
         THEN \E outcome \in CopyOutcomes :
                /\ dest' = CopyInto(dest, DestUtoc, HighestChunkUtocFilename, outcome)
                /\ bUtocCopied' = (outcome = "COPY_OK")
                /\ copyAttempts' = copyAttempts \cup {DestUtoc}
         ELSE UNCHANGED <<dest, bUtocCopied, copyAttempts>>
    /\ pc' = "bm_copyucas"
    /\ UNCHANGED <<callVars, liveCoding, notifications, stageVars, scanVars,
                   bPakCopied, bUcasCopied, bEssentialFilesCopied, buildVars, zipVars>>

\* A .ucas copy that does not look at the .utoc copy.
UcasCopyWanted_WithoutUtoc(io, utocCopied) == io

\* "bUseIoStore && bUtocCopied" (line 304): the .ucas copy is gone into.
UcasCopyWanted(io, utocCopied) == io /\ utocCopied

\* BuildMod, lines 303-317: copy the .ucas when the .utoc was copied.
BM_CopyUcas ==
    /\ pc = "bm_copyucas"
    /\ IF /\ UcasCopyWanted(bUseIoStore, bUtocCopied)
          /\ FileExists(stagedFiles, HighestChunkUcasFilename)
         THEN \E outcome \in CopyOutcomes :
                /\ dest' = CopyInto(dest, DestUcas, HighestChunkUcasFilename, outcome)
                /\ bUcasCopied' = (outcome = "COPY_OK")
                /\ copyAttempts' = copyAttempts \cup {DestUcas}
         ELSE UNCHANGED <<dest, bUcasCopied, copyAttempts>>
    /\ pc' = "bm_aggregate"
    /\ UNCHANGED <<callVars, liveCoding, notifications, stageVars, scanVars,
                   bPakCopied, bUtocCopied, bEssentialFilesCopied, buildVars, zipVars>>

\* An overall success that looks at the .pak alone.
EssentialFilesCopied_PakOnly(io, pak, utoc, ucas) == pak

\* An overall success that forgets the .ucas .
EssentialFilesCopied_NoUcas(io, pak, utoc, ucas) ==
    IF io THEN pak /\ utoc ELSE pak

\* Lines 319-323: the overall success of the copies.
EssentialFilesCopied(io, pak, utoc, ucas) ==
    IF io THEN pak /\ utoc /\ ucas ELSE pak

\* BuildMod, lines 319-323.
BM_Aggregate ==
    /\ pc = "bm_aggregate"
    /\ bEssentialFilesCopied' =
         EssentialFilesCopied(bUseIoStore, bPakCopied, bUtocCopied, bUcasCopied)
    /\ pc' = "bm_cleanup"
    /\ UNCHANGED <<callVars, liveCoding, notifications, diskVars, stageVars, scanVars,
                   bPakCopied, bUtocCopied, bUcasCopied, copyAttempts, buildVars,
                   zipVars>>

\* BuildMod, lines 331-335: delete the staging directory; a failure is logged.
BM_Cleanup ==
    /\ pc = "bm_cleanup"
    /\ \E deleteOk \in BOOLEAN : DeleteStagingDir(deleteOk)
    /\ pc' = "bm_finish"
    /\ UNCHANGED <<callVars, liveCoding, notifications, diskVars, stagingCreated,
                   uatVars, stagedFiles, resolutionRan, scanVars, copyVars,
                   buildVars, zipVars>>

\* A BuildMod that fails when the staging directory could not be deleted.
BuildOutcome_EscalatesCleanup(essential) == essential /\ ~deleteFailed

\* "!bEssentialFilesCopied" (line 339) decides what BuildMod returns.
BuildOutcome(essential) == essential

\* BuildMod, lines 338-366: the failure dialog, or the success toast and live
\* coding back on.
BM_Finish ==
    /\ pc = "bm_finish"
    /\ Notify
    /\ BuildReturns(BuildOutcome(bEssentialFilesCopied))
    /\ IF BuildOutcome(bEssentialFilesCopied)
         THEN SetLiveCoding(TRUE)
         ELSE UNCHANGED liveCoding
    /\ UNCHANGED <<callVars, diskVars, stageVars, scanVars, copyVars, entryVars, zipVars>>

\* BuildMod has returned, to the editor or to ZipMod (line 579): its locals
\* are gone; ZipMod holds what it returned, under the packaging settings it
\* ran with.
BM_Return ==
    /\ pc = "bm_ret"
    /\ pc' = IF topOp = "ZipMod" THEN "zm_built" ELSE "idle"
    /\ BuildLocalsReset
    /\ destBefore' = dest
    /\ liveCodingBefore' = liveCoding
    /\ bOutputFolder' = FALSE
    /\ bUseIoStore' = IF topOp = "ZipMod" THEN bUseIoStore ELSE FALSE
    /\ buildResult' = IF topOp = "ZipMod" THEN buildResult ELSE FALSE
    /\ UNCHANGED <<callVars, liveCoding, notifications, diskVars, zipVars>>

(*************************** ZipMod, ZipModInternal *************************)

\* The operator starts ZipMod from the editor.
Call_ZipMod ==
    /\ pc = "idle"
    /\ pc' = "zm_entry"
    /\ topOp' = "ZipMod"
    /\ bAlwaysBuildBeforeZipping' = FALSE
    /\ notifications' = 0
    /\ UNCHANGED <<liveCoding, diskVars, stageVars, scanVars, copyVars, buildVars,
                   zipVars>>

\* ZipMod, lines 574-579: build first when bAlwaysBuildBeforeZipping is set.
ZM_Begin ==
    /\ pc = "zm_entry"
    /\ \E setting \in BOOLEAN :
         /\ bAlwaysBuildBeforeZipping' = setting
         /\ pc' = IF setting THEN "bm_entry" ELSE "zi_entry"
    /\ UNCHANGED <<topOp, liveCoding, notifications, diskVars, stageVars, scanVars,
                   copyVars, buildVars, zipVars>>

\* A ZipMod that zips whatever BuildMod returned.
BuildFailed_Ignored(result) == FALSE

\* "!BuildMod(ModName)" (line 579).
BuildFailed(result) == ~result

\* ZipMod, lines 579-586: a failed build ends ZipMod, otherwise it zips.
ZM_Built ==
    /\ pc = "zm_built"
    /\ IF BuildFailed(buildResult)
         THEN /\ pc' = "zm_ret"
              /\ zipModResult' = FALSE
         ELSE /\ pc' = "zi_entry"
              /\ UNCHANGED zipModResult
    /\ UNCHANGED <<callVars, liveCoding, notifications, diskVars, stageVars, scanVars,
                   copyVars, buildVars, FilesToArchivePaths, zipIndex,
                   handleVars, zipEntries, bAllFilesAdded, readFailures, zipResult>>

\* The directory ZipModInternal reads the built files from.
OutputDir == "OutputDir"

\* A list of paths to archive that holds the .pak alone.
FilesToArchive_PakOnly(folder) ==
    IF FileExists(DOMAIN folder, DestPak) THEN <<PathOf(OutputDir, DestPak)>> ELSE <<>>

\* Lines 455-470: the paths to archive, from what the output folder holds.
FilesToArchive(folder) ==
    (IF FileExists(DOMAIN folder, DestPak)
       THEN <<PathOf(OutputDir, DestPak)>> ELSE <<>>)
    \o
    (IF FileExists(DOMAIN folder, DestUtoc) /\ FileExists(DOMAIN folder, DestUcas)
       THEN <<PathOf(OutputDir, DestUtoc), PathOf(OutputDir, DestUcas)>> ELSE <<>>)

\* "FilesToArchivePaths.IsEmpty()" (line 473): there is nothing to zip.
NothingToArchive(paths) == paths = <<>>

\* ZipModInternal returns value.
ZipReturns(value) ==
    /\ zipResult' = value
    /\ pc' = "zi_ret"

\* ZipModInternal, lines 436-481: the output folder and the files to zip.
ZI_Collect ==
    /\ pc = "zi_entry"
    /\ zipIndex' = 0
    /\ zipHandle' = "none"
    /\ writerCloses' = 0
    /\ handleCloses' = 0
    /\ zipEntries' = <<>>
    /\ bAllFilesAdded' = TRUE
    /\ readFailures' = {}
    /\ \E env \in OutputFolderEnvsFor(dest) :
         IF ~GetOutputFolder(TRUE, env)
           THEN /\ ZipReturns(FALSE)
                /\ FilesToArchivePaths' = <<>>
                /\ UNCHANGED notifications
         ELSE IF NothingToArchive(FilesToArchive(dest))
           THEN /\ Notify
                /\ ZipReturns(FALSE)
                /\ FilesToArchivePaths' = FilesToArchive(dest)
         ELSE /\ pc' = "zi_prepare"
              /\ FilesToArchivePaths' = FilesToArchive(dest)
              /\ zipResult' = FALSE
              /\ UNCHANGED notifications
    /\ UNCHANGED <<callVars, liveCoding, diskVars, stageVars, scanVars, copyVars,
                   buildVars, zipModResult>>

\* ZipModInternal, lines 483-518: the zip directory, then the zip file is
\* opened for writing and handed to the archive writer.
ZI_Prepare ==
    /\ pc = "zi_prepare"
    /\ \E dirExists \in BOOLEAN, makeOk \in BOOLEAN, openOk \in BOOLEAN :
         IF ~dirExists /\ ~makeOk
           THEN /\ Notify
                /\ ZipReturns(FALSE)
                /\ UNCHANGED handleVars
         ELSE IF ~openOk
           THEN /\ Notify
                /\ ZipReturns(FALSE)
                /\ UNCHANGED handleVars
         ELSE /\ zipHandle' = "open"
              /\ UNCHANGED <<writerCloses, handleCloses>>
              /\ pc' = "zi_loop"
              /\ UNCHANGED <<notifications, zipResult>>
    /\ UNCHANGED <<callVars, liveCoding, diskVars, stageVars, scanVars, copyVars,
                   buildVars, FilesToArchivePaths, zipIndex, zipEntries,
                   bAllFilesAdded, readFailures, zipModResult>>

\* A loop that stops at the first file it cannot read.
NextIndexAfterFailedRead_Break(index, count) == count

\* Lines 524-529: the loop goes on to the next file after a failed read.
NextIndexAfterFailedRead(index, count) == index + 1

\* ZipModInternal, lines 521-534: one file of the loop; a file that cannot be
\* read is skipped.
ZI_AddFile ==
    /\ pc = "zi_loop"
    /\ zipIndex < Len(FilesToArchivePaths)
    /\ LET FullPathToFile == FilesToArchivePaths[zipIndex + 1]
       IN  \E readOk \in BOOLEAN :
             IF ~readOk
               THEN /\ bAllFilesAdded' = FALSE
                    /\ readFailures' = readFailures \cup {FullPathToFile}
                    /\ zipIndex' = NextIndexAfterFailedRead(zipIndex,
                                                            Len(FilesToArchivePaths))
                    /\ UNCHANGED zipEntries
               ELSE /\ zipEntries' = Append(zipEntries,
                          [name |-> GetCleanFilename(FullPathToFile),
                           data |-> dest[FullPathToFile.name]])
                    /\ zipIndex' = zipIndex + 1
                    /\ UNCHANGED <<bAllFilesAdded, readFailures>>
    /\ UNCHANGED <<pc, callVars, liveCoding, notifications, diskVars, stageVars,
                   scanVars, copyVars, buildVars, FilesToArchivePaths, handleVars,
                   zipResult, zipModResult>>

\* FZipArchiveWriter (FileUtilities/ZipArchiveWriter.h, included at line 8) is
\* constructed on the raw IFileHandle* (line 518); its destructor writes the
\* central directory, flushes, and deletes that IFileHandle.
WriterDeletesFile == TRUE

\* ZipModInternal, line 536: ZipWriter.Reset() runs the writer's destructor,
\* which finalizes the archive and closes the file.
ZI_ResetWriter ==
    /\ pc = "zi_loop"
    /\ zipIndex >= Len(FilesToArchivePaths)
    /\ writerCloses' = writerCloses + 1
    /\ IF WriterDeletesFile
         THEN /\ zipHandle' = "closed"
              /\ handleCloses' = handleCloses + 1
         ELSE UNCHANGED <<zipHandle, handleCloses>>
    /\ pc' = "zi_reset"
    /\ UNCHANGED <<callVars, liveCoding, notifications, diskVars, stageVars, scanVars,
                   copyVars, buildVars, FilesToArchivePaths, zipIndex, zipEntries,
                   bAllFilesAdded, readFailures, zipResult, zipModResult>>

\* What deleting an IFileHandle that was deleted already may do: nothing that
\* shows, or the end of the editor process.
DoubleDeleteOutcomes == {"unnoticed", "crash"}

\* ZipModInternal, line 537: ZipFileHandle.Reset() deletes the IFileHandle the
\* TUniquePtr of line 509 still holds.
ZI_ResetHandle ==
    /\ pc = "zi_reset"
    /\ zipHandle' = "closed"
    /\ handleCloses' = handleCloses + 1
    /\ IF zipHandle = "closed"
         THEN \E outcome \in DoubleDeleteOutcomes :
                pc' = IF outcome = "crash" THEN "crashed" ELSE "zi_result"
         ELSE pc' = "zi_result"
    /\ UNCHANGED <<callVars, liveCoding, notifications, diskVars, stageVars, scanVars,
                   copyVars, buildVars, FilesToArchivePaths, zipIndex, writerCloses,
                   zipEntries, bAllFilesAdded, readFailures, zipResult, zipModResult>>

\* "!bAllFilesAdded" (line 540) decides what ZipModInternal returns.
ZipOutcome(allAdded) == allAdded

\* ZipModInternal, lines 540-569: the failure dialog or the success toast.
ZI_Result ==
    /\ pc = "zi_result"
    /\ Notify
    /\ ZipReturns(ZipOutcome(bAllFilesAdded))
    /\ UNCHANGED <<callVars, liveCoding, diskVars, stageVars, scanVars, copyVars,
                   buildVars, FilesToArchivePaths, zipIndex, handleVars, zipEntries,
                   bAllFilesAdded, readFailures, zipModResult>>

\* ZipMod returns what ZipModInternal returned (line 586).
ZI_Return ==
    /\ pc = "zi_ret"
    /\ pc' = "zm_ret"
    /\ zipModResult' = zipResult
    /\ ZipLocalsReset
    /\ zipResult' = FALSE
    /\ UNCHANGED <<callVars, liveCoding, notifications, diskVars, stageVars, scanVars,
                   copyVars, buildVars>>

\* ZipMod has returned to the editor.
ZM_Return ==
    /\ pc = "zm_ret"
    /\ pc' = "idle"
    /\ zipModResult' = FALSE
    /\ bAlwaysBuildBeforeZipping' = FALSE
    /\ bUseIoStore' = FALSE
    /\ buildResult' = FALSE
    /\ UNCHANGED <<topOp, liveCoding, notifications, diskVars, stageVars, scanVars,
                   copyVars, destBefore, liveCodingBefore, bOutputFolder,
                   FilesToArchivePaths, zipIndex, handleVars,
                   zipEntries, bAllFilesAdded, readFailures, zipResult>>

(***************************** specification *******************************)

\* The output folder before the first operation: empty, or holding the three
\* files of an earlier session.
InitialFolders ==
    {<<>>} \cup {[n \in S |-> OldBytes] : S \in SUBSET {DestPak, DestUtoc, DestUcas}}

\* The locals of BuildMod and ZipModInternal while neither runs.
LocalsInit ==
    /\ bUseIoStore = FALSE
    /\ destBefore = dest
    /\ liveCodingBefore = liveCoding
    /\ bOutputFolder = FALSE
    /\ TempStagingDirExists = FALSE
    /\ stagingCreated = FALSE
    /\ deleteAttempts = 0
    /\ deleteFailed = FALSE
    /\ uatRuns = 0
    /\ execSuccess = FALSE
    /\ execReturnCode = -1
    /\ stagedFiles = {}
    /\ resolutionRan = FALSE
    /\ scanned = 0
    /\ HighestChunkNum = ScanInit.HighestChunkNum
    /\ HighestChunkPakFilename = ScanInit.HighestChunkPakFilename
    /\ BasePlatformString = ScanInit.BasePlatformString
    /\ bPakCopied = FALSE
    /\ bUtocCopied = FALSE
    /\ bUcasCopied = FALSE
    /\ copyAttempts = {}
    /\ bEssentialFilesCopied = FALSE
    /\ buildResult = FALSE
    /\ FilesToArchivePaths = <<>>
    /\ zipIndex = 0
    /\ zipHandle = "none"
    /\ writerCloses = 0
    /\ handleCloses = 0
    /\ zipEntries = <<>>
    /\ bAllFilesAdded = TRUE
    /\ readFailures = {}
    /\ zipResult = FALSE
    /\ zipModResult = FALSE

Init ==
    /\ pc = "idle"
    /\ topOp = "none"
    /\ bAlwaysBuildBeforeZipping = FALSE
    /\ liveCoding \in BOOLEAN
    /\ notifications = 0
    /\ dest \in InitialFolders
    /\ FoundFiles = <<>>
    /\ LocalsInit

Next ==
    \/ Call_BuildMod
    \/ BM_Begin
    \/ BM_Paths
    \/ BM_RunUAT
    \/ BM_PaksDir
    \/ BM_Find
    \/ BM_CopyPak
    \/ BM_CopyUtoc
    \/ BM_CopyUcas
    \/ BM_Aggregate
    \/ BM_Cleanup
    \/ BM_Finish
    \/ BM_Return
    \/ Call_ZipMod
    \/ ZM_Begin
    \/ ZM_Built
    \/ ZI_Collect
    \/ ZI_Prepare
    \/ ZI_AddFile
    \/ ZI_ResetWriter
    \/ ZI_ResetHandle
    \/ ZI_Result
    \/ ZI_Return
    \/ ZM_Return

Spec == Init /\ [][Next]_vars

(************ the resolution loop on its own (lines 213-253) ***************)

\* The loop starts on a listing FindFiles returned.
InitResolve ==
    /\ pc = "rs_loop"
    /\ topOp = "none"
    /\ bAlwaysBuildBeforeZipping = FALSE
    /\ liveCoding = TRUE
    /\ notifications = 0
    /\ dest = <<>>
    /\ FoundFiles \in Listings(ListingPool, MaxListing)
    /\ LocalsInit

\* One iteration of the loop (lines 223-248).
RS_Scan ==
    /\ pc = "rs_loop"
    /\ scanned < Len(FoundFiles)
    /\ LET st == ScanOne([HighestChunkNum |-> HighestChunkNum,
                          HighestChunkPakFilename |-> HighestChunkPakFilename,
                          BasePlatformString |-> BasePlatformString],
                         FoundFiles[scanned + 1])
       IN  /\ HighestChunkNum' = st.HighestChunkNum
           /\ HighestChunkPakFilename' = st.HighestChunkPakFilename
           /\ BasePlatformString' = st.BasePlatformString
    /\ scanned' = scanned + 1
    /\ UNCHANGED <<sessionVars, diskVars, stageVars, FoundFiles, copyVars, buildVars,
                   zipVars>>

\* The loop is over: line 253 tells whether a pakchunk was found.
RS_Done ==
    /\ pc = "rs_loop"
    /\ scanned >= Len(FoundFiles)
    /\ pc' = IF HasCandidate([HighestChunkNum |-> HighestChunkNum,
                              HighestChunkPakFilename |-> HighestChunkPakFilename,
                              BasePlatformString |-> BasePlatformString])
               THEN "rs_found" ELSE "rs_none"
    /\ UNCHANGED <<callVars, liveCoding, notifications, diskVars, stageVars, scanVars,
                   copyVars, buildVars, zipVars>>

NextResolve == RS_Scan \/ RS_Done

SpecResolve == InitResolve /\ [][NextResolve]_vars

(******************************** claims ***********************************)

\* The files of a listing.
Range(seq) == {seq[i] : i \in 1..Len(seq)}

\* The files of a listing that match the pakchunk grammar.
Matching(files) == {f \in files : PakChunkMatch(f).matched}

\* The chunk index parsed from a matching file name.
ChunkIndex(f) == Atoi(PakChunkMatch(f).group1)

\* The files of a set whose parsed chunk index is the highest of the set.
Highest(files) ==
    {f \in Matching(files) : \A g \in Matching(files) : ChunkIndex(g) <= ChunkIndex(f)}

\* C1 as stated: the loop ends on the file with the highest parsed chunk index,
\* and that file is the same whatever the order of the listing.
C1_SameFileInAnyOrder ==
    (pc \in {"rs_found", "rs_none"} /\ Matching(Range(FoundFiles)) # {}) =>
        /\ HighestChunkPakFilename \in Highest(Range(FoundFiles))
        /\ \A other \in Orderings(Range(FoundFiles)) :
             FindHighest(other).HighestChunkPakFilename = HighestChunkPakFilename

\* C1 (amended): over a listing with at least one matching name the loop ends
\* on a file of the listing whose parsed chunk index is the highest, 17 among
\* chunks 3, 17 and 9; the highest index found is the same in every order of
\* the listing, and so is the file when only one file has that index.
C1_HighestIndexSelected ==
    (pc \in {"rs_found", "rs_none"} /\ Matching(Range(FoundFiles)) # {}) =>
        /\ pc = "rs_found"
        /\ HighestChunkPakFilename \in Highest(Range(FoundFiles))
        /\ HighestChunkNum = ChunkIndex(HighestChunkPakFilename)
        /\ Range(FoundFiles) = {N3, N17, N9} => HighestChunkPakFilename = N17
        /\ \A other \in Orderings(Range(FoundFiles)) :
             /\ FindHighest(other).HighestChunkNum = HighestChunkNum
             /\ Cardinality(Highest(Range(FoundFiles))) = 1 =>
                  FindHighest(other).HighestChunkPakFilename = HighestChunkPakFilename

\* C1 witness: the loop has been through chunks 3, 17 and 9 with the highest
\* one listed neither first nor last.
C1_Witness ==
    /\ pc = "rs_found"
    /\ FoundFiles = <<N3, N17, N9>>
    /\ HighestChunkPakFilename = N17

\* BuildMod has been through the resolution loop and has not returned to its
\* caller yet.
AfterResolution ==
    /\ resolutionRan
    /\ pc \in {"bm_copypak", "bm_copyutoc", "bm_copyucas", "bm_aggregate",
               "bm_cleanup", "bm_finish", "bm_ret"}

\* The resolution loop found a pakchunk: BuildMod goes through the copies.
CopyPhaseReached == AfterResolution /\ HighestChunkPakFilename # <<>>

\* What a folder holds under a name.
Entry(folder, name) ==
    IF name \in DOMAIN folder THEN <<"file", folder[name]>> ELSE <<"absent">>

\* C2 as stated: when BuildMod has returned, the temporary staging directory
\* is not on disk.
C2_StagingDirGone == pc = "bm_ret" => ~TempStagingDirExists

\* C2 (amended): when BuildMod has returned, a staging directory it created
\* has been handed to DeleteDirectory exactly once, and it is still on disk
\* only if that call failed; an invocation that failed before creating the
\* directory leaves none and deletes nothing.
C2_StagingDirDeletionAttempted ==
    pc = "bm_ret" =>
        /\ stagingCreated => deleteAttempts = 1
        /\ ~stagingCreated => deleteAttempts = 0
        /\ TempStagingDirExists <=> (stagingCreated /\ deleteFailed)

\* C2 witness: a build whose copies failed has returned, and its staging
\* directory is deleted.
C2_Witness ==
    /\ pc = "bm_ret"
    /\ stagingCreated
    /\ copyAttempts # {}
    /\ ~buildResult
    /\ deleteAttempts = 1
    /\ ~TempStagingDirExists

\* C3 as stated: with IO Store, when the .utoc of the highest pakchunk is not
\* staged, BuildMod fails without calling Copy at all, and the output folder
\* is as it was when BuildMod was entered.
C3_NoCopyWithoutUtoc ==
    (/\ CopyPhaseReached
     /\ bUseIoStore
     /\ ~FileExists(stagedFiles, HighestChunkUtocFilename)) =>
        /\ copyAttempts = {}
        /\ dest = destBefore
        /\ pc = "bm_ret" => ~buildResult

\* C4: the .ucas is copied only with IO Store and after the .utoc was copied
\* by the same invocation; while the .utoc is missing or its copy failed no
\* Copy is called for the .ucas and the .ucas of the output folder is untouched.
C4_UcasOnlyAfterUtoc ==
    /\ bUcasCopied => (bUseIoStore /\ bUtocCopied)
    /\ DestUcas \in copyAttempts => (bUseIoStore /\ bUtocCopied)
    /\ (AfterResolution /\ ~bUtocCopied) =>
          Entry(dest, DestUcas) = Entry(destBefore, DestUcas)

\* C4 witness: the .utoc copy failed and the .ucas, which is staged, was not
\* copied.
C4_Witness ==
    /\ pc = "bm_aggregate"
    /\ bUseIoStore
    /\ DestUtoc \in copyAttempts
    /\ ~bUtocCopied
    /\ FileExists(stagedFiles, HighestChunkUcasFilename)
    /\ DestUcas \notin copyAttempts

\* C5: once the copy phase is reached, BuildMod returns the conjunction of the
\* three copy flags with IO Store and the .pak flag alone without it; it never
\* returns true when the .pak was not copied.
C5_AggregateResult ==
    (CopyPhaseReached /\ pc \in {"bm_cleanup", "bm_finish", "bm_ret"}) =>
        LET aggregate == IF bUseIoStore
                           THEN bPakCopied /\ bUtocCopied /\ bUcasCopied
                           ELSE bPakCopied
        IN  /\ bEssentialFilesCopied = aggregate
            /\ pc = "bm_ret" => (buildResult = aggregate)
            /\ (pc = "bm_ret" /\ ~bPakCopied) => ~buildResult

\* C5 witness: with IO Store the .pak and the .utoc were copied, the .ucas
\* was not, and BuildMod returned false.
C5_Witness ==
    /\ pc = "bm_ret"
    /\ bUseIoStore
    /\ bPakCopied
    /\ bUtocCopied
    /\ ~bUcasCopied
    /\ ~buildResult

\* C6: with IO Store, the .utoc of the highest pakchunk staged and its .ucas
\* not staged, the .ucas flag is false in every state of the invocation and
\* BuildMod returns false.
C6_MissingUcasFails ==
    (/\ CopyPhaseReached
     /\ bUseIoStore
     /\ FileExists(stagedFiles, HighestChunkUtocFilename)
     /\ ~FileExists(stagedFiles, HighestChunkUcasFilename)) =>
        /\ ~bUcasCopied
        /\ pc \in {"bm_cleanup", "bm_finish"} => ~bEssentialFilesCopied
        /\ pc = "bm_ret" => ~buildResult

\* C6 witness: the .pak and the .utoc were copied, the .ucas is not staged,
\* and BuildMod returned false.
C6_Witness ==
    /\ pc = "bm_ret"
    /\ bUseIoStore
    /\ bPakCopied
    /\ bUtocCopied
    /\ ~FileExists(stagedFiles, HighestChunkUcasFilename)
    /\ ~buildResult

\* C7: when the staged directory holds no .pak file, or only the unnumbered
\* default one, the resolution loop selects nothing, no Copy is called, the
\* output folder is as it was, and BuildMod returns false.
C7_NoCandidates ==
    (AfterResolution /\ PakFilesOf(stagedFiles) \subseteq {NDefault}) =>
        /\ HighestChunkPakFilename = <<>>
        /\ HighestChunkNum = -1
        /\ pc \notin {"bm_copypak", "bm_copyutoc", "bm_copyucas", "bm_aggregate"}
        /\ copyAttempts = {}
        /\ dest = destBefore
        /\ ~bEssentialFilesCopied
        /\ pc = "bm_ret" => ~buildResult

\* C7 witness: the staged directory held the default .pak alone, and BuildMod
\* returned false over an output folder that holds files.
C7_Witness ==
    /\ pc = "bm_ret"
    /\ resolutionRan
    /\ PakFilesOf(stagedFiles) = {NDefault}
    /\ DOMAIN dest # {}
    /\ ~buildResult

\* ZipModInternal is past the collection of the files to archive.
ZipPastCollect == pc \in {"zi_prepare", "zi_loop", "zi_reset", "zi_result", "zi_ret"}

\* C8 as stated: when the output folder does not hold the canonical .pak,
\* ZipModInternal returns false and never opens the archive file.
C8_NoPakNothingArchived ==
    (ZipPastCollect /\ ~FileExists(DOMAIN dest, DestPak)) =>
        /\ zipHandle = "none"
        /\ pc = "zi_ret"
        /\ ~zipResult

\* The entry AddFile makes of a file of the output folder.
EntryOf(folder, name) == [name |-> name, data |-> folder[name]]

\* C9 as stated: when ZipModInternal succeeds, the archive holds the canonical
\* .pak, then the .utoc and the .ucas if and only if the output folder holds
\* both, each once, with the bytes of the file in the output folder.
C9_ArchiveHoldsExpectedList ==
    (pc = "zi_ret" /\ zipResult) =>
        /\ FileExists(DOMAIN dest, DestPak)
        /\ zipEntries =
             IF ~FileExists(DOMAIN dest, DestPak) THEN <<>>
             ELSE IF {DestUtoc, DestUcas} \subseteq DOMAIN dest
               THEN <<EntryOf(dest, DestPak), EntryOf(dest, DestUtoc),
                      EntryOf(dest, DestUcas)>>
             ELSE <<EntryOf(dest, DestPak)>>

\* The names of a sequence of paths, without the paths of a set.
RECURSIVE NamesWithout(_, _)
NamesWithout(paths, skipped) ==
    IF paths = <<>> THEN <<>>
    ELSE (IF Head(paths) \in skipped THEN <<>> ELSE <<Head(paths).name>>)
         \o NamesWithout(Tail(paths), skipped)

\* C10: when the archive loop is over it has been through every file to
\* archive, the archive holds every file whose read succeeded, those after a
\* failed read too, and ZipModInternal returns true exactly when no read
\* failed.
C10_ReadFailureDoesNotStopLoop ==
    ((pc = "zi_result") \/ (pc = "zi_ret" /\ zipHandle = "closed")) =>
        /\ zipIndex = Len(FilesToArchivePaths)
        /\ [i \in 1..Len(zipEntries) |-> zipEntries[i].name]
             = NamesWithout(FilesToArchivePaths, readFailures)
        /\ bAllFilesAdded = (readFailures = {})
        /\ pc = "zi_ret" => (zipResult = (readFailures = {}))
        /\ pc = "zi_ret" => (zipResult = (Len(zipEntries) = Len(FilesToArchivePaths)))

\* C10 witness: the read of the .pak failed, the .utoc and the .ucas were
\* added after it, and ZipModInternal returned false.
C10_Witness ==
    /\ pc = "zi_ret"
    /\ readFailures = {PathOf(OutputDir, DestPak)}
    /\ Len(zipEntries) = 2
    /\ zipEntries[2].name = DestUcas
    /\ ~zipResult

\* C11 as stated: once the archive file is open, the writer is finalized once
\* and the file handle is closed once, after the loop has been through every
\* file to archive and before ZipModInternal returns, whether or not a read
\* failed; nothing is added to a finalized archive and no handle is open at
\* return.
C11_ClosedExactlyOnce ==
    /\ writerCloses <= 1
    /\ handleCloses <= 1
    /\ writerCloses > 0 => zipIndex = Len(FilesToArchivePaths)
    /\ handleCloses > 0 => zipIndex = Len(FilesToArchivePaths)
    /\ (writerCloses > 0 \/ handleCloses > 0) =>
          ([i \in 1..Len(zipEntries) |-> zipEntries[i].name]
             = NamesWithout(FilesToArchivePaths, readFailures))
    /\ (pc = "zi_ret" /\ zipHandle # "none") =>
          /\ zipHandle = "closed"
          /\ writerCloses = 1
          /\ handleCloses = 1

\* The canonical files a successful build of the running invocation writes.
WrittenBy(io) == IF io THEN {DestPak, DestUtoc, DestUcas} ELSE {DestPak}

\* The staged file the running invocation copies onto a canonical name.
StagedSourceOf(name) ==
    IF name = DestPak THEN HighestChunkPakFilename
    ELSE IF name = DestUtoc THEN HighestChunkUtocFilename
    ELSE HighestChunkUcasFilename

\* C12: when BuildMod returns true, every canonical file it writes holds the
\* bytes of the staged file of the resolved set, whatever the output folder
\* held under that name before, and the other files are as they were; so a
\* second successful copy phase over the same resolved set leaves the output
\* folder as the first one left it.
C12_StagingIdempotent ==
    (pc = "bm_ret" /\ buildResult) =>
        /\ \A n \in WrittenBy(bUseIoStore) :
             Entry(dest, n) = <<"file", [from |-> StagedSourceOf(n)]>>
        /\ \A n \in (DOMAIN dest \cup DOMAIN destBefore) \ WrittenBy(bUseIoStore) :
             Entry(dest, n) = Entry(destBefore, n)
        /\ (\A n \in WrittenBy(bUseIoStore) :
              Entry(destBefore, n) = <<"file", [from |-> StagedSourceOf(n)]>>)
             => dest = destBefore

\* C12 witness: an IO Store build returned true over an output folder that
\* held the three files of an earlier successful build of the same staged
\* files.
C12_Witness ==
    /\ pc = "bm_ret"
    /\ buildResult
    /\ bUseIoStore
    /\ HighestChunkPakFilename = N17
    /\ \A n \in WrittenBy(TRUE) :
         Entry(destBefore, n) = <<"file", [from |-> StagedSourceOf(n)]>>
    /\ dest = destBefore

\* C13 as stated: whenever BuildMod returns, true or false, the live-coding
\* flag it switched off at entry is what it was when BuildMod was entered.
C13_LiveCodingRestored == pc = "bm_ret" => liveCoding = liveCodingBefore

\* C14 as stated: when a top-level BuildMod or ZipMod returns to the editor,
\* it has shown exactly one dialog or toast.
C14_OneNotificationPerOperation ==
    ((pc = "bm_ret" /\ topOp = "BuildMod") \/ pc = "zm_ret") => notifications = 1

\* BuildMod is past its call of GetOutputFolder and has not returned to its
\* caller yet.
BuildPastEntry ==
    pc \in {"bm_paths", "bm_uat", "bm_paksdir", "bm_find", "bm_copypak", "bm_copyutoc",
            "bm_copyucas", "bm_aggregate", "bm_cleanup", "bm_finish", "bm_ret"}

\* C15: when GetOutputFolder returned false to BuildMod, BuildMod returns false
\* at once: the packaging tool was not run, no staging directory was created,
\* no Copy was called and the output folder is as it was.
C15_NoBuildWithoutOutputFolder ==
    (BuildPastEntry /\ ~bOutputFolder) =>
        /\ pc = "bm_ret"
        /\ ~buildResult
        /\ uatRuns = 0
        /\ ~stagingCreated
        /\ ~TempStagingDirExists
        /\ ~resolutionRan
        /\ copyAttempts = {}
        /\ dest = destBefore

\* C15 witness: BuildMod returned false because no output folder was
\* determined, after the one dialog of line 98.
C15_Witness ==
    /\ pc = "bm_ret"
    /\ ~bOutputFolder
    /\ ~buildResult
    /\ notifications = 1

\* The packaging tool was run and failed to launch or ended on a non-zero code.
UatFailed == uatRuns > 0 /\ (~execSuccess \/ execReturnCode # 0)

\* C16: when the packaging tool fails to launch or ends on a non-zero code,
\* BuildMod returns false without running the resolution loop or calling Copy,
\* and the output folder is as it was; the resolution loop runs only after the
\* tool was launched and ended on code 0.
C16_ToolFailureIsFatal ==
    /\ (BuildPastEntry /\ UatFailed) =>
          /\ pc = "bm_ret"
          /\ ~buildResult
          /\ ~resolutionRan
          /\ copyAttempts = {}
          /\ dest = destBefore
    /\ (resolutionRan \/ pc \in {"bm_paksdir", "bm_find"}) =>
          (uatRuns = 1 /\ execSuccess /\ execReturnCode = 0)

\* C16 witness: the tool was launched and ended on code 1, and BuildMod
\* returned false.
C16_Witness ==
    /\ pc = "bm_ret"
    /\ uatRuns = 1
    /\ execSuccess
    /\ execReturnCode = 1
    /\ ~buildResult

\* The three extensions of a built mod.
Extensions == {S_dotpak, S_dotutoc, S_dotucas}

\* BuildMod is in its copy phase (lines 277-317).
InCopyPhase == pc \in {"bm_copypak", "bm_copyutoc", "bm_copyucas"}

\* C17, on the output folder: every file in it is named ModName plus one of the
\* three extensions, a file a build wrote has the extension of the staged file
\* it is a copy of, and no file has the name of a staged file.
C17_CanonicalFilesOnly ==
    /\ \A n \in DOMAIN dest \cup copyAttempts : \E e \in Extensions : n = ModName \o e
    /\ \A n \in DOMAIN dest :
         dest[n] # OldBytes =>
             \E e \in Extensions : EndsWith(n, e) /\ EndsWith(dest[n].from, e)
    /\ DOMAIN dest \cap (stagedFiles \cup StagedPool \cup CompanionsOf(StagedPool)) = {}

\* C17: every file BuildMod writes into the output folder has a canonical name
\* with the extension of its staged source, no file with a staging name is
\* created there, and no step of the copy phase changes the files of the
\* staged directory.
C17_CanonicalNamesSourcesKept ==
    /\ []C17_CanonicalFilesOnly
    /\ [][InCopyPhase => stagedFiles' = stagedFiles]_vars

\* C17 witness: an IO Store build has copied pakchunk17-Win64 under the three
\* canonical names and the staged directory still holds the three sources.
C17_Witness ==
    /\ pc = "bm_aggregate"
    /\ HighestChunkPakFilename = N17
    /\ bPakCopied /\ bUtocCopied /\ bUcasCopied
    /\ DOMAIN dest = {ModName \o e : e \in Extensions}
    /\ {N17, HighestChunkUtocFilename, HighestChunkUcasFilename} \subseteq stagedFiles

\* C18: when BuildMod returns after it created the staging directory,
\* DeleteDirectory has been called on the directory, and what BuildMod returns
\* is the outcome of the resolution and of the copies, the same whether that
\* call succeeded or failed.
C18_CleanupAttemptedNeverEscalated ==
    (pc = "bm_ret" /\ stagingCreated) =>
        /\ deleteAttempts >= 1
        /\ buildResult = (resolutionRan /\ bEssentialFilesCopied)
        /\ (resolutionRan /\ HighestChunkPakFilename # <<>>) =>
              (buildResult = (/\ bPakCopied
                              /\ bUseIoStore => (bUtocCopied /\ bUcasCopied)))

\* C18 witness: every copy succeeded, DeleteDirectory failed, and BuildMod
\* returned true with the staging directory left on disk.
C18_Witness ==
    /\ pc = "bm_ret"
    /\ stagingCreated
    /\ deleteAttempts = 1
    /\ deleteFailed
    /\ TempStagingDirExists
    /\ buildResult

\* The copy phase of BuildMod is over and BuildMod has not returned to its
\* caller yet.
CopyPhaseOver ==
    CopyPhaseReached /\ pc \in {"bm_aggregate", "bm_cleanup", "bm_finish", "bm_ret"}

\* The copy flag of a canonical name.
CopiedFlag(name) ==
    IF name = DestPak THEN bPakCopied
    ELSE IF name = DestUtoc THEN bUtocCopied
    ELSE bUcasCopied

\* A Copy of the running invocation failed.
SomeCopyFailed == \E n \in copyAttempts : ~CopiedFlag(n)

\* The canonical names a Copy is called for when no Copy fails: those the build
\* configuration asks for and whose staged source is in the staged directory,
\* the .ucas only beside a staged .utoc .
CopiesDue ==
    {n \in WrittenBy(bUseIoStore) :
        /\ FileExists(stagedFiles, StagedSourceOf(n))
        /\ n = DestUcas => FileExists(stagedFiles, HighestChunkUtocFilename)}

\* C19 as stated: when a Copy of the copy phase failed, a Copy was still
\* called for every other file due, and BuildMod returns false.
C19_FailureAbortsNoCopy ==
    (CopyPhaseOver /\ SomeCopyFailed) =>
        /\ copyAttempts = CopiesDue
        /\ pc # "bm_aggregate" => ~bEssentialFilesCopied
        /\ pc = "bm_ret" => ~buildResult

\* C19 (amended): a failed .pak copy does not stop the .utoc copy, and the
\* .ucas copy follows a successful .utoc copy whatever became of the .pak; a
\* failed .utoc copy leaves the .ucas without a Copy; any failed Copy makes
\* the aggregate result false and BuildMod return false.
C19_FailureAccounting ==
    CopyPhaseOver =>
        /\ DestPak \in copyAttempts
        /\ DestUtoc \in copyAttempts <=> DestUtoc \in CopiesDue
        /\ DestUcas \in copyAttempts <=> (DestUcas \in CopiesDue /\ bUtocCopied)
        /\ SomeCopyFailed =>
              /\ pc # "bm_aggregate" => ~bEssentialFilesCopied
              /\ pc = "bm_ret" => ~buildResult

\* C19 witness: the .pak copy failed, the .utoc and the .ucas were copied
\* after it, and BuildMod returned false.
C19_Witness ==
    /\ pc = "bm_ret"
    /\ DestPak \in copyAttempts
    /\ ~bPakCopied
    /\ bUtocCopied
    /\ bUcasCopied
    /\ ~buildResult

\* The first file of a listing that is in a set of files.
FirstListed(listing, files) ==
    listing[CHOOSE i \in 1..Len(listing) :
                /\ listing[i] \in files
                /\ \A j \in 1..(i - 1) : listing[j] \notin files]

\* A .pak name with its last four characters replaced by an extension.
WithExtension(pakName, ext) == SubSeq(pakName, 1, Len(pakName) - Len(S_dotpak)) \o ext

\* C20: over a listing in which several files share the highest chunk index,
\* the loop ends on one file, the first of them in the listing, as it does
\* every time it is run on that listing; the platform part and the names of
\* the .utoc and of the .ucas are those of that one file.
C20_FirstListedOfTies ==
    (pc \in {"rs_found", "rs_none"} /\ Cardinality(Highest(Range(FoundFiles))) > 1) =>
        /\ pc = "rs_found"
        /\ HighestChunkPakFilename = FirstListed(FoundFiles, Highest(Range(FoundFiles)))
        /\ FindHighest(FoundFiles).HighestChunkPakFilename = HighestChunkPakFilename
        /\ BasePlatformString = PakChunkMatch(HighestChunkPakFilename).group2
        /\ HighestChunkUtocFilename = WithExtension(HighestChunkPakFilename, S_dotutoc)
        /\ HighestChunkUcasFilename = WithExtension(HighestChunkPakFilename, S_dotucas)
        /\ \A f \in Highest(Range(FoundFiles)) \ {HighestChunkPakFilename} :
             /\ HighestChunkUtocFilename # WithExtension(f, S_dotutoc)
             /\ HighestChunkUcasFilename # WithExtension(f, S_dotucas)

\* C20 witness: three files share chunk index 17, the Linux one is listed
\* first, and the loop ended on it.
C20_Witness ==
    /\ pc = "rs_found"
    /\ FoundFiles = <<N17Linux, N017, N17>>
    /\ HighestChunkPakFilename = N17Linux
    /\ HighestChunkUtocFilename = S_pakchunk \o <<"1", "7">> \o S_Linux \o S_dotutoc

\* C21: when BuildMod returns true with IO Store, a Copy of this invocation
\* wrote each of the three canonical files, each is the copy of a staged file
\* with the extension of its name, and the three staged files have one base
\* name, that of the pakchunk the resolution loop selected.
C21_CompanionsOfTheWinner ==
    (pc = "bm_ret" /\ buildResult /\ bUseIoStore) =>
        /\ copyAttempts = {ModName \o e : e \in Extensions}
        /\ bPakCopied /\ bUtocCopied /\ bUcasCopied
        /\ HighestChunkPakFilename \in Highest(PakFilesOf(stagedFiles))
        /\ \A e \in Extensions :
             /\ ModName \o e \in DOMAIN dest
             /\ dest[ModName \o e] # OldBytes
             /\ dest[ModName \o e].from \in stagedFiles
             /\ dest[ModName \o e].from
                  = WithExtension(HighestChunkPakFilename, e)

\* C21 witness: two pakchunks were staged, each with its companions, and the
\* IO Store build returned true with the three files of chunk 17.
C21_Witness ==
    /\ pc = "bm_ret"
    /\ buildResult
    /\ bUseIoStore
    /\ {N3, N17} \subseteq stagedFiles
    /\ WithExtension(N3, S_dotucas) \in stagedFiles
    /\ dest[DestUcas].from = WithExtension(N17, S_dotucas)

\* ZipModInternal is running, or has returned to ZipMod.
InZipModInternal ==
    pc \in {"zi_entry", "zi_prepare", "zi_loop", "zi_reset", "zi_result", "zi_ret",
            "crashed"}

\* ZipMod is past its read of bAlwaysBuildBeforeZipping and has not returned.
ZipModRunning == topOp = "ZipMod" /\ pc \notin {"idle", "zm_entry"}

\* C22, in every state of a ZipMod: with build-before-zip, ZipModInternal runs
\* only after BuildMod returned true, and the archive file is open or written
\* only then; without it, ZipMod is in ZipModInternal or has returned from it,
\* never in BuildMod, and the packaging tool has not been run.
C22_ZipOnlyAfterBuild ==
    ZipModRunning =>
        /\ (bAlwaysBuildBeforeZipping /\ InZipModInternal) => buildResult
        /\ (bAlwaysBuildBeforeZipping /\ zipHandle # "none") => buildResult
        /\ (bAlwaysBuildBeforeZipping /\ pc = "zm_ret" /\ ~buildResult) => ~zipModResult
        /\ ~bAlwaysBuildBeforeZipping =>
              /\ InZipModInternal \/ pc = "zm_ret"
              /\ uatRuns = 0

\* C22: in ZipMod with build-before-zip, when BuildMod has returned false
\* ZipMod returns false in its next step, without entering ZipModInternal and
\* with no archive file opened or written; ZipModInternal runs only after a
\* successful BuildMod, and with build-before-zip disabled ZipMod goes to
\* ZipModInternal without running the packaging tool.
C22_ArchiveAfterSuccessfulBuild ==
    /\ []C22_ZipOnlyAfterBuild
    /\ [][(pc = "zm_built" /\ ~buildResult) =>
            /\ pc' = "zm_ret"
            /\ ~zipModResult'
            /\ zipHandle' = "none"
            /\ zipEntries' = <<>>]_vars
    /\ [][(pc = "zm_entry" /\ ~bAlwaysBuildBeforeZipping') => pc' = "zi_entry"]_vars

\* C22 witness: ZipMod with build-before-zip is back from a BuildMod that
\* returned false, and returns false with no archive file opened.
C22_Witness ==
    /\ pc = "zm_ret"
    /\ topOp = "ZipMod"
    /\ bAlwaysBuildBeforeZipping
    /\ ~buildResult
    /\ ~zipModResult
    /\ zipHandle = "none"

\* ZipModInternal has returned true to a ZipMod that built the mod without
\* IO Store right before.
ZippedAfterPakOnlyBuild ==
    /\ pc = "zi_ret"
    /\ zipResult
    /\ topOp = "ZipMod"
    /\ bAlwaysBuildBeforeZipping
    /\ buildResult
    /\ ~bUseIoStore

\* The names of the entries of the archive, in order.
ZipEntryNames == [i \in 1..Len(zipEntries) |-> zipEntries[i].name]

\* C23 as stated: after a BuildMod without IO Store returned true, the
\* ZipModInternal that follows archives the .pak of that build alone.
C23_ArchiveHoldsPakOnly ==
    ZippedAfterPakOnlyBuild => ZipEntryNames = <<DestPak>>

\* C23 (amended): after a BuildMod without IO Store returned true, the archive
\* of the ZipModInternal that follows holds first the .pak that build wrote,
\* and after it the .utoc and the .ucas exactly when the output folder holds
\* both, with the bytes an earlier build or session left there.
C23_ArchiveHoldsPakAndLeftovers ==
    ZippedAfterPakOnlyBuild =>
        /\ Len(zipEntries) >= 1
        /\ zipEntries[1] = EntryOf(dest, DestPak)
        /\ dest[DestPak] # OldBytes
        /\ PakChunkMatch(dest[DestPak].from).matched
        /\ IF {DestUtoc, DestUcas} \subseteq DOMAIN dest
             THEN /\ ZipEntryNames = <<DestPak, DestUtoc, DestUcas>>
                  /\ zipEntries[2].data = dest[DestUtoc]
                  /\ zipEntries[3].data = dest[DestUcas]
             ELSE ZipEntryNames = <<DestPak>>

\* C23 witness: the output folder held the .utoc and the .ucas of an earlier
\* session, the build without IO Store wrote the .pak, and the archive holds
\* the three files.
C23_Witness ==
    /\ ZippedAfterPakOnlyBuild
    /\ Len(zipEntries) = 3
    /\ zipEntries[1].data # OldBytes
    /\ zipEntries[2].data = OldBytes
    /\ zipEntries[3].data = OldBytes

====
